---- MODULE Spec2Model ----
(***************************************************************************)
(* A model of alerta_redemet_agente.py: the bulletin classifier            *)
(* analisar_mensagem_meteorologica, the in-memory cache of sent alerts     *)
(* alertas_enviados_cache and the polling run verificar_e_alertar.         *)
(*                                                                         *)
(* Bulletin texts are TLA+ strings; Python's substring test and the        *)
(* regular expressions of the source are operators over them. Findings are *)
(* the very strings the source builds.                                     *)
(***************************************************************************)
EXTENDS Integers, Sequences, FiniteSets, TLC

(***************************************************************************)
(* Text primitives                                                         *)
(***************************************************************************)

\* s[a:b] of a string, empty when the slice leaves the string
Sub(s, a, b) == IF a >= 1 /\ b <= Len(s) /\ a <= b THEN SubSeq(s, a, b) ELSE ""

Digits == {"0", "1", "2", "3", "4", "5", "6", "7", "8", "9"}

\* \d{n} at position i
DigitsAt(s, i, n) ==
    /\ i >= 1
    /\ i + n - 1 <= Len(s)
    /\ \A k \in i..(i + n - 1) : SubSeq(s, k, k) \in Digits

\* a literal at position i
LitAt(s, i, lit) == Sub(s, i, i + Len(lit) - 1) = lit

\* Python's  c in s  for strings
Contains(s, c) == \E i \in 1..(Len(s) - Len(c) + 1) : LitAt(s, i, c)

Min(S) == CHOOSE i \in S : \A j \in S : i <= j

DigitVal(c) ==
    CASE c = "0" -> 0 [] c = "1" -> 1 [] c = "2" -> 2 [] c = "3" -> 3
      [] c = "4" -> 4 [] c = "5" -> 5 [] c = "6" -> 6 [] c = "7" -> 7
      [] c = "8" -> 8 [] c = "9" -> 9

\* Python's int() of a string of decimal digits
RECURSIVE ToInt(_)
ToInt(s) ==
    IF Len(s) = 0 THEN 0
    ELSE 10 * ToInt(SubSeq(s, 1, Len(s) - 1)) + DigitVal(SubSeq(s, Len(s), Len(s)))

UpperChar(c) ==
    CASE c = "a" -> "A" [] c = "b" -> "B" [] c = "c" -> "C" [] c = "d" -> "D"
      [] c = "e" -> "E" [] c = "f" -> "F" [] c = "g" -> "G" [] c = "h" -> "H"
      [] c = "i" -> "I" [] c = "j" -> "J" [] c = "k" -> "K" [] c = "l" -> "L"
      [] c = "m" -> "M" [] c = "n" -> "N" [] c = "o" -> "O" [] c = "p" -> "P"
      [] c = "q" -> "Q" [] c = "r" -> "R" [] c = "s" -> "S" [] c = "t" -> "T"
      [] c = "u" -> "U" [] c = "v" -> "V" [] c = "w" -> "W" [] c = "x" -> "X"
      [] c = "y" -> "Y" [] c = "z" -> "Z" [] OTHER -> c

\* str.upper(), of the characters a..b of s (by halves, to keep the
\* evaluation shallow)
RECURSIVE UpperRange(_, _, _)
UpperRange(s, a, b) ==
    IF a > b THEN ""
    ELSE IF a = b THEN UpperChar(SubSeq(s, a, a))
    ELSE UpperRange(s, a, (a + b) \div 2) \o UpperRange(s, (a + b) \div 2 + 1, b)

Upper(s) == UpperRange(s, 1, Len(s))

(***************************************************************************)
(* The table of METAR/TAF codes                                            *)
(***************************************************************************)

CODIGOS_METAR_TAF_MAP ==
    [ TS |-> "Trovoada",
      RA |-> "Chuva",
      PlusRA |-> "Chuva Forte",
      MinusRA |-> "Chuva Fraca",
      GR |-> "Granizo",
      GS |-> "Granizo Pequeno/Grãos de Neve",
      FZRA |-> "Chuva Congelante",
      SN |-> "Neve",
      SG |-> "Nevoeiro Congelante",
      IC |-> "Cristais de Gelo",
      PL |-> "Pellets de Gelo",
      UP |-> "Precipitação Desconhecida",
      FG |-> "Nevoeiro",
      BR |-> "Névoa",
      HZ |-> "Névoa Seca (Haze)",
      FU |-> "Fumaça",
      VA |-> "Cinzas Vulcânicas",
      DU |-> "Poeira Generalizada",
      SA |-> "Areia",
      BLDU |-> "Poeira Levantada",
      BLSA |-> "Areia Levantada",
      BLSN |-> "Neve Levantada",
      DRDU |-> "Poeira Arrastada",
      DRSA |-> "Areia Arrastada",
      DRSN |-> "Neve Arrastada",
      PO |-> "Redemoinhos de Poeira/Areia",
      SQ |-> "Rajada (Squall)",
      FC |-> "Funil de Vento (Tornado/Waterspout)",
      SS |-> "Tempestade de Areia",
      DS |-> "Tempestade de Poeira",
      VCTS |-> "Trovoada nas Proximidades",
      SH |-> "Pancada (Shower)",
      OVC |-> "Nublado (Overcast)",
      BKN |-> "Parcialmente Nublado (Broken)",
      CB |-> "Cumulunimbus",
      TCU |-> "Cumulus Castellanus",
      WS |-> "Tesoura de Vento (Wind Shear)" ]

\* the key of an entry as it is written in a bulletin: the record's field
\* names cannot hold "+" and "-"
CodigoTexto(k) ==
    CASE k = "PlusRA" -> "+RA" [] k = "MinusRA" -> "-RA" [] OTHER -> k

(***************************************************************************)
(* The regular expressions of analisar_mensagem_meteorologica              *)
(***************************************************************************)

\* \s
Whitespace == {" ", "\t", "\n", "\r", "\f"}

NoMatch == [found |-> FALSE]

\* the height test as it would be with the class [1-6]
TetoBaixo_AteSeis(codigo_icao, msg) ==
    \E i \in 1..Len(msg) :
        /\ LitAt(msg, i, codigo_icao \o "00")
        /\ Sub(msg, i + Len(codigo_icao) + 2, i + Len(codigo_icao) + 2)
              \in {"1", "2", "3", "4", "5", "6"}

\* re.search(f"{codigo_icao}00[1-5]", mensagem_upper)
TetoBaixo(codigo_icao, msg) ==
    \E i \in 1..Len(msg) :
        /\ LitAt(msg, i, codigo_icao \o "00")
        /\ Sub(msg, i + Len(codigo_icao) + 2, i + Len(codigo_icao) + 2)
              \in {"1", "2", "3", "4", "5"}

\* the positions where r'\s(\d{4})\s' matches
VisPositions(msg) ==
    { i \in 1..Len(msg) :
        /\ Sub(msg, i, i) \in Whitespace
        /\ DigitsAt(msg, i + 1, 4)
        /\ Sub(msg, i + 5, i + 5) \in Whitespace }

\* re.search(r'\s(\d{4})\s', mensagem_upper): the leftmost match, group 1
VisMatch(msg) ==
    IF VisPositions(msg) = {} THEN NoMatch
    ELSE LET i == Min(VisPositions(msg))
         IN  [found |-> TRUE, group1 |-> SubSeq(msg, i + 1, i + 4)]

CbPositions(msg) ==
    { i \in 1..Len(msg) :
        /\ Sub(msg, i, i + 2) \in {"FEW", "SCT", "BKN", "OVC"}
        /\ DigitsAt(msg, i + 3, 3)
        /\ LitAt(msg, i + 6, "CB") }

\* re.search(r'(FEW|SCT|BKN|OVC)(\d{3})CB', mensagem_upper)
CbMatch(msg) ==
    IF CbPositions(msg) = {} THEN NoMatch
    ELSE LET i == Min(CbPositions(msg))
         IN  [found |-> TRUE, group2 |-> SubSeq(msg, i + 3, i + 5)]

\* (\d{2,3})(G(\d{2,3}))?KT tried at position j with ns speed digits and ng
\* gust digits (ng = 0: the optional gust group does not take part)
VelocidadeAt(msg, j, ns, ng) ==
    /\ DigitsAt(msg, j, ns)
    /\ IF ng = 0 THEN LitAt(msg, j + ns, "KT")
       ELSE /\ LitAt(msg, j + ns, "G")
            /\ DigitsAt(msg, j + ns + 1, ng)
            /\ LitAt(msg, j + ns + 1 + ng, "KT")

\* the order in which the greedy quantifiers try the lengths
OrdemGulosa == << <<3, 3>>, <<3, 2>>, <<3, 0>>, <<2, 3>>, <<2, 2>>, <<2, 0>> >>

\* (\d{3}|VRB)(\d{2,3})(G(\d{2,3}))?KT anchored at position i: the groups of
\* the first alternative that matches, group4 = "" for Python's None
WindAt(msg, i) ==
    IF ~ (DigitsAt(msg, i, 3) \/ LitAt(msg, i, "VRB")) THEN NoMatch
    ELSE LET ok == { n \in 1..Len(OrdemGulosa) :
                        VelocidadeAt(msg, i + 3, OrdemGulosa[n][1], OrdemGulosa[n][2]) }
         IN  IF ok = {} THEN NoMatch
             ELSE LET ns == OrdemGulosa[Min(ok)][1]
                      ng == OrdemGulosa[Min(ok)][2]
                  IN  [ found  |-> TRUE,
                        group2 |-> SubSeq(msg, i + 3, i + 2 + ns),
                        group4 |-> IF ng = 0 THEN ""
                                   ELSE SubSeq(msg, i + 4 + ns, i + 3 + ns + ng),
                        fim    |-> i + 3 + ns + (IF ng = 0 THEN 0 ELSE ng + 1) + 1 ]

WindPositions(msg, from) == { i \in from..Len(msg) : WindAt(msg, i).found }

\* re.search(r'(\d{3}|VRB)(\d{2,3})(G(\d{2,3}))?KT', mensagem_upper)
WindMatch(msg) ==
    IF WindPositions(msg, 1) = {} THEN NoMatch
    ELSE WindAt(msg, Min(WindPositions(msg, 1)))

\* (TEMPO|BECMG|PROB\d{2})\s anchored at position i: the marker, "" when none
TrendMarkerAt(msg, i) ==
    IF LitAt(msg, i, "TEMPO") /\ Sub(msg, i + 5, i + 5) \in Whitespace THEN "TEMPO"
    ELSE IF LitAt(msg, i, "BECMG") /\ Sub(msg, i + 5, i + 5) \in Whitespace THEN "BECMG"
    ELSE IF /\ LitAt(msg, i, "PROB")
            /\ DigitsAt(msg, i + 4, 2)
            /\ Sub(msg, i + 6, i + 6) \in Whitespace
         THEN SubSeq(msg, i, i + 5)
    ELSE ""

\* where the lazy .*? after the marker at i stops: the wind groups it can
\* reach without crossing a line break
TrendWindPositions(msg, i) ==
    LET body == i + Len(TrendMarkerAt(msg, i)) + 1
    IN  { j \in body..Len(msg) :
            /\ WindAt(msg, j).found
            /\ ~ Contains(Sub(msg, body, j - 1), "\n") }

TrendPositions(msg, from) ==
    { i \in from..Len(msg) :
        /\ TrendMarkerAt(msg, i) # ""
        /\ TrendWindPositions(msg, i) # {} }

\* re.findall(r'(TEMPO|BECMG|PROB\d{2})\s.*?(VRB|\d{3})(\d{2,3})(G(\d{2,3}))?KT', ...)
\* from position `from`: the non-overlapping matches, left to right
RECURSIVE WindGroupsInTaf(_, _)
WindGroupsInTaf(msg, from) ==
    IF TrendPositions(msg, from) = {} THEN << >>
    ELSE LET i == Min(TrendPositions(msg, from))
             w == WindAt(msg, Min(TrendWindPositions(msg, i)))
         IN  << [ group0 |-> TrendMarkerAt(msg, i),
                  group2 |-> w.group2,
                  group4 |-> w.group4 ] >>
             \o WindGroupsInTaf(msg, w.fim + 1)

\* the length of the run of digits at position j
RECURSIVE DigitRun(_, _)
DigitRun(msg, j) ==
    IF DigitsAt(msg, j, 1) THEN 1 + DigitRun(msg, j + 1) ELSE 0

SfcPositions(msg) ==
    { i \in 1..Len(msg) :
        /\ LitAt(msg, i, "SFC WSPD ")
        /\ DigitRun(msg, i + 9) >= 1
        /\ LitAt(msg, i + 9 + DigitRun(msg, i + 9), "KT") }

\* re.search(r'SFC WSPD (\d+KT)(?: MAX (\d+))?', mensagem_upper),
\* group2 = "" for Python's None
SfcMatch(msg) ==
    IF SfcPositions(msg) = {} THEN NoMatch
    ELSE LET i  == Min(SfcPositions(msg))
             e  == i + 9 + DigitRun(msg, i + 9) + 1
             nm == DigitRun(msg, e + 6)
         IN  [ found  |-> TRUE,
               group1 |-> SubSeq(msg, i + 9, e),
               group2 |-> IF LitAt(msg, e + 1, " MAX ") /\ nm >= 1
                          THEN SubSeq(msg, e + 6, e + 5 + nm) ELSE "" ]

(***************************************************************************)
(* analisar_mensagem_meteorologica                                         *)
(***************************************************************************)

\* " e ".join(parts)
RECURSIVE JoinE(_)
JoinE(parts) ==
    IF Len(parts) = 0 THEN ""
    ELSE IF Len(parts) = 1 THEN parts[1]
    ELSE parts[1] \o " e " \o JoinE(Tail(parts))

\* the threshold test as it would be with the comparison  >=
AcimaDoLimite_Inclusivo(v) == v >= 20

\* the threshold test on the sustained speed and on the gust
AcimaDoLimite(v) == v > 20

\* the parts of a wind finding as they would be if the sustained speed were
\* appended whenever either value is above the threshold
WindDesc_SempreMedio(sustained_wind_str, gust_wind_str) ==
    IF \/ AcimaDoLimite(ToInt(sustained_wind_str))
       \/ gust_wind_str # "" /\ AcimaDoLimite(ToInt(gust_wind_str))
    THEN << "Vento Médio de " \o ToString(ToInt(sustained_wind_str)) \o "KT" >>
         \o
         (IF gust_wind_str # "" /\ AcimaDoLimite(ToInt(gust_wind_str))
          THEN << "Rajadas de " \o ToString(ToInt(gust_wind_str)) \o "KT" >>
          ELSE << >>)
    ELSE << >>

\* wind_desc / wind_desc_taf: the parts of a wind finding, from the speed and
\* gust strings of a matched wind group
WindDesc(sustained_wind_str, gust_wind_str) ==
    (IF AcimaDoLimite(ToInt(sustained_wind_str))
     THEN << "Vento Médio de " \o ToString(ToInt(sustained_wind_str)) \o "KT" >>
     ELSE << >>)
    \o
    (IF gust_wind_str # "" /\ AcimaDoLimite(ToInt(gust_wind_str))
     THEN << "Rajadas de " \o ToString(ToInt(gust_wind_str)) \o "KT" >>
     ELSE << >>)

\* one pass of the loop over CODIGOS_METAR_TAF_MAP for METAR, SPECI and TAF:
\* what the code appends for the entry k
AchadoDoCodigo(k, msg) ==
    LET codigo_icao == CodigoTexto(k)
        descricao   == CODIGOS_METAR_TAF_MAP[k]
    IN  IF ~ Contains(msg, codigo_icao) THEN {}
        ELSE IF codigo_icao \in {"OVC", "BKN"} THEN
            IF TetoBaixo(codigo_icao, msg)
            THEN {descricao \o " (TETO BAIXO < 600FT)"} ELSE {}
        ELSE IF codigo_icao = "FG" THEN
            IF VisMatch(msg).found THEN
                IF ToInt(VisMatch(msg).group1) < 1000
                THEN {descricao \o " (VISIBILIDADE < 1000M)"} ELSE {}
            ELSE IF Contains(msg, "FG") THEN {descricao} ELSE {}
        ELSE IF codigo_icao = "RA" /\ Contains(msg, "+RA") THEN {"Chuva Forte"}
        ELSE IF codigo_icao = "CB" THEN
            IF CbMatch(msg).found
            THEN {descricao \o " a " \o ToString(ToInt(CbMatch(msg).group2) * 100) \o "FT"}
            ELSE {descricao}
        ELSE {descricao}

\* the wind finding of the first wind group of the text
AchadoDoVento(msg) ==
    LET wind_match == WindMatch(msg)
    IN  IF ~ wind_match.found THEN {}
        ELSE LET wind_desc == WindDesc(wind_match.group2, wind_match.group4)
             IN  IF wind_desc # << >> THEN {JoinE(wind_desc)} ELSE {}

\* one pass of the TAF loop over CODIGOS_METAR_TAF_MAP
AchadoTafDoCodigo(k, msg) ==
    LET codigo_icao == CodigoTexto(k)
        descricao   == CODIGOS_METAR_TAF_MAP[k]
    IN  (IF \/ Contains(msg, "PROB30 " \o codigo_icao)
            \/ Contains(msg, "PROB40 " \o codigo_icao)
         THEN {"PREVISÃO PROB: " \o descricao} ELSE {})
        \cup
        (IF Contains(msg, "TEMPO " \o codigo_icao)
         THEN {"PREVISÃO TEMPO: " \o descricao} ELSE {})
        \cup
        (IF Contains(msg, "BECMG " \o codigo_icao)
         THEN {"PREVISÃO BECMG: " \o descricao} ELSE {})
        \cup
        (IF codigo_icao \in {"OVC", "BKN"} /\ TetoBaixo(codigo_icao, msg)
         THEN {"PREVISÃO: " \o descricao \o " (TETO BAIXO < 600FT)"} ELSE {})
        \cup
        (IF codigo_icao = "FG" THEN
            IF VisMatch(msg).found /\ ToInt(VisMatch(msg).group1) < 1000
            THEN {"PREVISÃO: " \o descricao \o " (VISIBILIDADE < 1000M)"}
            ELSE IF Contains(msg, "FG") THEN {"PREVISÃO: " \o descricao} ELSE {}
         ELSE {})

\* the wind findings of the trend groups of a TAF
AchadosVentoTaf(msg) ==
    LET wind_groups_in_taf == WindGroupsInTaf(msg, 1)
    IN  { "PREVISÃO " \o wind_groups_in_taf[n].group0 \o ": "
            \o JoinE(WindDesc(wind_groups_in_taf[n].group2, wind_groups_in_taf[n].group4)) :
          n \in { m \in 1..Len(wind_groups_in_taf) :
                    WindDesc(wind_groups_in_taf[m].group2,
                             wind_groups_in_taf[m].group4) # << >> } }

\* aviso_fenomenos_desc: the phenomena of an aerodrome warning
AvisoFenomenos(msg) ==
    (IF Contains(msg, "TS") THEN {"Trovoada"} ELSE {})
    \cup
    (IF SfcMatch(msg).found THEN
        IF SfcMatch(msg).group2 # ""
        THEN {"Vento de Superfície entre " \o SfcMatch(msg).group1 \o " e "
                 \o SfcMatch(msg).group2 \o "KT"}
        ELSE {"Vento de Superfície de " \o SfcMatch(msg).group1}
     ELSE {})
    \cup
    (IF Contains(msg, "GRANIZO") THEN {"Granizo"} ELSE {})
    \cup
    (IF Contains(msg, "NEVOEIRO") \/ Contains(msg, "FG") THEN {"Nevoeiro"} ELSE {})
    \cup
    (IF Contains(msg, "CHUVA FORTE") \/ Contains(msg, "+RA") THEN {"Chuva Forte"} ELSE {})
    \cup
    (IF Contains(msg, "VISIBILIDADE REDUZIDA") THEN {"Visibilidade Reduzida"} ELSE {})
    \cup
    (IF Contains(msg, "WIND SHEAR") \/ Contains(msg, "WS")
     THEN {"Tesoura de Vento (Wind Shear)"} ELSE {})
    \cup
    (IF Contains(msg, "CINZAS VULCÂNICAS") \/ Contains(msg, "VA")
     THEN {"Cinzas Vulcânicas"} ELSE {})
    \cup
    (IF Contains(msg, "FUMAÇA") \/ Contains(msg, "FU") THEN {"Fumaça"} ELSE {})

\* analisar_mensagem_meteorologica(mensagem_texto, tipo_mensagem): the set of
\* the findings (the code returns list(set(...)))
analisar_mensagem_meteorologica(mensagem_texto, tipo_mensagem) ==
    LET mensagem_upper == Upper(mensagem_texto)
        tipo == Upper(tipo_mensagem)
    IN  (IF Contains(tipo, "METAR") \/ Contains(tipo, "SPECI") \/ Contains(tipo, "TAF")
         THEN UNION { AchadoDoCodigo(k, mensagem_upper) : k \in DOMAIN CODIGOS_METAR_TAF_MAP }
              \cup AchadoDoVento(mensagem_upper)
              \cup (IF Contains(tipo, "TAF")
                    THEN UNION { AchadoTafDoCodigo(k, mensagem_upper) :
                                   k \in DOMAIN CODIGOS_METAR_TAF_MAP }
                         \cup AchadosVentoTaf(mensagem_upper)
                    ELSE {})
         ELSE {})
        \cup
        (IF Contains(tipo, "AVISO")
         THEN IF AvisoFenomenos(mensagem_upper) # {}
              THEN AvisoFenomenos(mensagem_upper)
              ELSE {"Conteúdo não mapeado"}
         ELSE {})

(***************************************************************************)
(* The polling agent: bounds and inputs                                    *)
(***************************************************************************)

\* the runs of verificar_e_alertar a behaviour holds, over all processes
MaxRuns == 3
\* the bulletins one query of an endpoint returns, at most
MaxFetch == 2
\* the times the process is started again
MaxRestarts == 1
\* the keys the string hash of one process is drawn from: 0..MaxSemente
MaxSemente == 1
\* the range of the modelled string hash: 0..HashMod-1
HashMod == 5

\* INTERVALO_VERIFICACAO, in seconds
INTERVALO_VERIFICACAO == 300
\* timedelta(hours=24)
HORAS_RETENCAO == 24
Janela == HORAS_RETENCAO * 3600

AERODROMOS_INTERESSE == <<"SBTA">>

\* the bulletins the three endpoints can return for SBTA: a warning, a
\* forecast and an observation of the simulated lists of
\* obter_mensagens_redemet_simulada, and a warning that names no phenomenon
AvisoSuperficie == "SBRF SBLE/SBTA/SBJE/SNBR/SWKQ AD WRNG 4 VALID 281210/281310 SFC WSPD 15KT MAX 25 FCST NC="
AvisoVazio == "SBGR SBGR/SBTA/SBSP AD WRNG 1 OBS AT 1200Z NC="
TafTempo == "TAF SBTA 281600Z 2812/2912 36008KT 9999 SCT020 TX20/2814Z TN05/2908Z TEMPO 2812/2818 32015G25KT 7000 RA SCT012 BKN020 BECMG 2818/2820 27010KT 9999 NSW SCT015 RMK PEL="
MetarCalmo == "METAR SBTA 060100Z VRB01KT CAVOK 22/19 Q1018="

Endpoints == {"avisos", "taf", "metar"}

Publicados(endpoint) ==
    CASE endpoint = "avisos" -> {AvisoSuperficie, AvisoVazio}
      [] endpoint = "taf"    -> {TafTempo}
      [] endpoint = "metar"  -> {MetarCalmo}

Textos == UNION { Publicados(e) : e \in Endpoints }

\* the lists of at most MaxFetch bulletins over a set of texts
Listas(S) == UNION { [1..n -> S] : n \in 0..MaxFetch }

\* the time that passes from the start of one run to the start of the next:
\* the sleep of INTERVALO_VERIFICACAO, or a whole retention window; an age
\* beyond the window is the sum of two such steps
Passos ==
    { INTERVALO_VERIFICACAO, Janela }

Sementes == 0..MaxSemente

(***************************************************************************)
(* hash() of a string                                                      *)
(***************************************************************************)

Alfabeto == "0123456789ABCDEFGHIJKLMNOPQRSTUVWXYZ /+-="

Ord(c) ==
    LET at == { i \in 1..Len(Alfabeto) : SubSeq(Alfabeto, i, i) = c }
    IN  IF at = {} THEN 0 ELSE Min(at)

\* the weighted sum of the characters a..b of m (by halves)
RECURSIVE SomaPesada(_, _, _, _)
SomaPesada(chave, m, a, b) ==
    IF a > b THEN 0
    ELSE IF a = b THEN (Ord(SubSeq(m, a, a)) * (a + chave)) % HashMod
    ELSE (SomaPesada(chave, m, a, (a + b) \div 2)
            + SomaPesada(chave, m, (a + b) \div 2 + 1, b)) % HashMod

\* Python's hash() of a str is keyed by a secret the interpreter draws when the
\* process starts (hash randomisation): a keyed checksum over a small range
StrHash(chave, m) == (chave + SomaPesada(chave, m, 1, Len(m))) % HashMod

(***************************************************************************)
(* The state of the agent                                                  *)
(***************************************************************************)

VARIABLES
    alertas_enviados_cache, \* {hash_da_mensagem: timestamp_envio}, in the process's memory
    semente,                \* the key of this process's string hash
    agora_utc,              \* datetime.now of the current (or the last) run, in seconds
    pc,                     \* where the process is: "dormindo" (time.sleep), or in the
                            \* loop over "avisos", "taf" or "metar"
    pendentes,              \* the bulletins of the current loop not yet looked at
    redemet_ok,             \* whether the data source answers during this run
    telegram,               \* the messages handed to enviar_mensagem_telegram so far
    execucoes,              \* the runs started so far
    reinicios,              \* the times the process was started again
    falhas,                 \* the runs in a row, up to now, whose queries failed
    chamada,                \* the arguments and the result of the call of
    retorno                 \*   analisar_mensagem_meteorologica made by the latest step

vars ==
    << alertas_enviados_cache, semente, agora_utc, pc, pendentes, redemet_ok,
       telegram, execucoes, reinicios, falhas, chamada, retorno >>

classificador == << chamada, retorno >>

CacheVazio == [h \in {} |-> 0]

SemChamada == [mensagem_texto |-> "", tipo_mensagem |-> ""]

\* a step of the agent that does not call analisar_mensagem_meteorologica
SemClassificacao == chamada' = SemChamada /\ retorno' = {}

\* hash() of the published texts under each key, computed once
HashTabela == [ k \in Sementes |-> [ m \in Textos |-> StrHash(k, m) ] ]

\* calcular_hash_mensagem(mensagem): hash(mensagem) in the running process
calcular_hash_mensagem(mensagem) == HashTabela[semente][mensagem]

\* the answer of a query of the REDEMET endpoint: None when the request
\* fails, else {"data": [...]} with the bulletins published for the aerodrome
obter_mensagens_redemet(endpoint, ok) ==
    IF ok THEN { [none |-> FALSE, data |-> l] : l \in Listas(Publicados(endpoint)) }
    ELSE { [none |-> TRUE, data |-> << >>] }

\* the loop body runs over  data['data']  if  data and data['data']
Iteraveis(resposta) == IF resposta.none THEN << >> ELSE resposta.data

StartsWith(s, prefix) == Sub(s, 1, Len(prefix)) = prefix

\* the declared type the loop of an endpoint passes to the classifier
TipoDe(endpoint, mensagem) ==
    CASE endpoint = "avisos" -> "AVISO"
      [] endpoint = "taf"    -> "TAF"
      [] endpoint = "metar"  -> IF StartsWith(mensagem, "SPECI") THEN "SPECI" ELSE "METAR"

\* the first line of alert_message
Titulo(endpoint, tipo, aerodromo) ==
    CASE endpoint = "avisos" -> "NOVO ALERTA DE AERÓDROMO PARA " \o aerodromo \o "!"
      [] endpoint = "taf"    -> "NOVO ALERTA TAF PARA " \o aerodromo \o "!"
      [] endpoint = "metar"  -> "NOVO ALERTA " \o tipo \o " PARA " \o aerodromo \o "!"

\* alert_message: the fields the f-string puts into the text
AlertMessage(endpoint, mensagem, condicoes_perigosas, agora) ==
    [ titulo    |-> Titulo(endpoint, TipoDe(endpoint, mensagem), AERODROMOS_INTERESSE[1]),
      condicoes |-> condicoes_perigosas,
      original  |-> mensagem,
      hora      |-> agora ]

\* the classification of the published bulletins, computed once
Analise ==
    [ e \in Endpoints |->
        [ m \in Publicados(e) |-> analisar_mensagem_meteorologica(m, TipoDe(e, m)) ] ]

\* the condition as it would be if every bulletin not yet cached were alerted
DeveAlertar_Sempre(condicoes_perigosas) == TRUE

\* if condicoes_perigosas and "Conteúdo não mapeado" not in condicoes_perigosas
DeveAlertar(condicoes_perigosas) ==
    condicoes_perigosas # {} /\ "Conteúdo não mapeado" \notin condicoes_perigosas

(***************************************************************************)
(* verificar_e_alertar, step by step                                       *)
(***************************************************************************)

Init ==
    /\ alertas_enviados_cache = CacheVazio
    /\ semente \in Sementes
    /\ agora_utc = 0
    /\ pc = "dormindo"
    /\ pendentes = << >>
    /\ redemet_ok = TRUE
    /\ telegram = << >>
    /\ execucoes = 0
    /\ reinicios = 0
    /\ falhas = 0
    /\ chamada = SemChamada
    /\ retorno = {}

\* the run starts: agora_utc is read and the warnings are queried
Iniciar ==
    /\ pc = "dormindo"
    /\ execucoes < MaxRuns
    /\ \E passo \in Passos, ok \in BOOLEAN :
        /\ agora_utc' = agora_utc + passo
        /\ redemet_ok' = ok
        /\ falhas' = IF ok THEN 0 ELSE falhas + 1
        /\ \E avisos_data \in obter_mensagens_redemet("avisos", ok) :
              pendentes' = Iteraveis(avisos_data)
    /\ pc' = "avisos"
    /\ execucoes' = execucoes + 1
    /\ SemClassificacao
    /\ UNCHANGED << alertas_enviados_cache, semente, telegram, reinicios >>

\* enviar_mensagem_telegram(TELEGRAM_CHAT_ID, alert_message): the attempt to
\* post the message, as the log of attempts records it; a request that fails
\* raises RequestException, which the function prints and swallows, so the
\* caller goes on either way
enviar_mensagem_telegram(alert_message, entregue) ==
    [ titulo    |-> alert_message.titulo,
      condicoes |-> alert_message.condicoes,
      original  |-> alert_message.original,
      hora      |-> alert_message.hora,
      entregue  |-> entregue ]

\* the cache as it would be if the entry were written only after a post that
\* succeeded
RegistrarEnvio_SoEntregue(cache, msg_hash, agora, entregue) ==
    IF entregue THEN cache @@ (msg_hash :> agora) ELSE cache

\* alertas_enviados_cache[msg_hash] = agora_utc, the statement after the call
\* of enviar_mensagem_telegram
RegistrarEnvio(cache, msg_hash, agora, entregue) == cache @@ (msg_hash :> agora)

\* the cache as it would be if a bulletin found in it had its entry renewed
NoCache_Renova(cache, msg_hash, agora) == [cache EXCEPT ![msg_hash] = agora]

\* if msg_hash not in alertas_enviados_cache has no else: a bulletin found in
\* the cache leaves the cache as it is
NoCache(cache, msg_hash, agora) == cache

\* one pass of the loop of an endpoint over its bulletins; chamada and retorno
\* hold the call of analisar_mensagem_meteorologica the pass makes, if any
Processar(endpoint) ==
    /\ pc = endpoint
    /\ pendentes # << >>
    /\ LET mensagem == Head(pendentes)
           msg_hash == calcular_hash_mensagem(mensagem)
           condicoes_perigosas == Analise[endpoint][mensagem]
       IN  IF msg_hash \notin DOMAIN alertas_enviados_cache
           THEN /\ chamada' = [ mensagem_texto |-> mensagem,
                                tipo_mensagem  |-> TipoDe(endpoint, mensagem) ]
                /\ retorno' = condicoes_perigosas
                /\ IF DeveAlertar(condicoes_perigosas)
                   THEN \E entregue \in BOOLEAN :
                        /\ telegram' = Append(telegram,
                               enviar_mensagem_telegram(
                                   AlertMessage(endpoint, mensagem, condicoes_perigosas,
                                                agora_utc),
                                   entregue))
                        /\ alertas_enviados_cache' =
                               RegistrarEnvio(alertas_enviados_cache, msg_hash, agora_utc,
                                              entregue)
                   ELSE UNCHANGED << telegram, alertas_enviados_cache >>
           ELSE /\ SemClassificacao
                /\ alertas_enviados_cache' =
                       NoCache(alertas_enviados_cache, msg_hash, agora_utc)
                /\ UNCHANGED telegram
    /\ pendentes' = Tail(pendentes)
    /\ UNCHANGED << semente, agora_utc, pc, redemet_ok, execucoes, reinicios, falhas >>

ProcessarAviso == Processar("avisos")

ProcessarTaf == Processar("taf")

ProcessarMetar == Processar("metar")

\* the loop of an endpoint is over: the next endpoint is queried
Buscar(anterior, endpoint) ==
    /\ pc = anterior
    /\ pendentes = << >>
    /\ \E data \in obter_mensagens_redemet(endpoint, redemet_ok) :
          pendentes' = Iteraveis(data)
    /\ pc' = endpoint
    /\ UNCHANGED << alertas_enviados_cache, semente, agora_utc, redemet_ok, telegram,
                    execucoes, reinicios, falhas >>
    /\ SemClassificacao

BuscarTafs == Buscar("avisos", "taf")

BuscarMetars == Buscar("taf", "metar")

\* the entries kept as they would be with the comparison  >=
Retidos_Inclusivo(cache, agora) ==
    { h \in DOMAIN cache : ~ (agora - cache[h] >= Janela) }

\* the entries the clean-up at the end of the run keeps
Retidos(cache, agora) ==
    { h \in DOMAIN cache : ~ (agora - cache[h] > Janela) }

\* the clean-up of the cache, then time.sleep
LimparCache ==
    /\ pc = "metar"
    /\ pendentes = << >>
    /\ alertas_enviados_cache' =
          [ h \in Retidos(alertas_enviados_cache, agora_utc) |-> alertas_enviados_cache[h] ]
    /\ pc' = "dormindo"
    /\ UNCHANGED << semente, agora_utc, pendentes, redemet_ok, telegram, execucoes,
                    reinicios, falhas >>
    /\ SemClassificacao

\* the process ends and is started again: the module is loaded anew, the
\* cache is the empty dict of line 67 and the interpreter draws a new hash key.
\* (A process that ends in the middle of a run leaves what a run over shorter
\* lists leaves, so the restart is taken between two runs.)
Reiniciar ==
    /\ pc = "dormindo"
    /\ reinicios < MaxRestarts
    /\ reinicios' = reinicios + 1
    /\ alertas_enviados_cache' = CacheVazio
    /\ semente' \in Sementes
    /\ pc' = "dormindo"
    /\ pendentes' = << >>
    /\ SemClassificacao
    /\ UNCHANGED << agora_utc, redemet_ok, telegram, execucoes, falhas >>

Next ==
    \/ Iniciar
    \/ ProcessarAviso
    \/ BuscarTafs
    \/ ProcessarTaf
    \/ BuscarMetars
    \/ ProcessarMetar
    \/ LimparCache
    \/ Reiniciar

Spec == Init /\ [][Next]_vars

(***************************************************************************)
(* Deduplication across runs and processes                                 *)
(***************************************************************************)

\* the alerts sent so far about the bulletin text m, by position in telegram
AlertasDe(m) == { n \in 1..Len(telegram) : telegram[n].original = m }

\* the position of the latest alert about the bulletin text m
UltimoAlerta(m) == CHOOSE n \in AlertasDe(m) : \A k \in AlertasDe(m) : k <= n

\* C1: for every bulletin text, at most one alert is sent within any 24-hour
\* retention window: two alerts about the byte-identical text, whether of
\* the same run or of different runs, are more than 24 hours apart.
C1_UmAlertaPorJanela ==
    \A i, j \in 1..Len(telegram) :
        (i < j /\ telegram[i].original = telegram[j].original)
            => telegram[j].hora - telegram[i].hora > Janela

\* C2: the cache outlives the process: a bulletin alerted inside the
\* retention window, by this process invocation or by an earlier one, is
\* reported as seen (its key is in the cache) by the invocation that runs now.
C2_CacheSobreviveAoProcesso ==
    \A n \in 1..Len(telegram) :
        agora_utc - telegram[n].hora <= Janela
            => calcular_hash_mensagem(telegram[n].original)
                   \in DOMAIN alertas_enviados_cache

\* C3: calcular_hash_mensagem is a stable content hash: the key of a text is
\* the same in every run and in every process, so no step changes it.
C3_HashEstavel ==
    [][ \A m \in Textos :
            calcular_hash_mensagem(m)' = calcular_hash_mensagem(m) ]_vars

\* C4: the entry of an alerted bulletin is evicted at the end of the first
\* run whose time exceeds the time of the alert by more than 24 hours, and
\* the bulletin is alerted again only after that, never earlier: between two
\* runs the entry written by the latest alert is gone exactly when that alert
\* is more than 24 hours old, and every earlier alert about the same text is
\* older than the latest one by more than 24 hours.
C4_RealertaSoAposEviccao ==
    pc = "dormindo" =>
        \A m \in Textos :
            AlertasDe(m) # {} =>
                LET n == UltimoAlerta(m)
                    h == calcular_hash_mensagem(m)
                    t == telegram[n].hora
                    guardado == h \in DOMAIN alertas_enviados_cache
                                  /\ alertas_enviados_cache[h] = t
                IN  /\ guardado <=> ~ (agora_utc - t > Janela)
                    /\ \A i \in AlertasDe(m) \ {n} : t - telegram[i].hora > Janela

\* the messages sent so far that are about the data source and not about a
\* bulletin
MetaAlertas == { n \in 1..Len(telegram) : telegram[n].original \notin Textos }

\* C5: consecutive failures of the queries are tracked across runs: once 3
\* runs in a row have failed, exactly one 'data source unavailable'
\* meta-alert has been sent for the outage.
C5_MetaAlertaAposTresFalhas ==
    (pc = "dormindo" /\ falhas >= 3) => Cardinality(MetaAlertas) = 1

(***************************************************************************)
(* analisar_mensagem_meteorologica on its own: one call on a bulletin drawn *)
(* from bounded families of texts                                          *)
(***************************************************************************)

\* the speeds of the wind groups tried lie within Folga knots of 20
Folga == 5

\* the speeds tried, in knots: around 20, one written with a leading zero
\* and one of three digits
Velocidades == ((20 - Folga)..(20 + Folga)) \cup {5, 100}

\* the gusts tried: 0 stands for a wind group without a gust
Rajadas == {0} \cup Velocidades

\* a speed as a wind group holds it: two digits at least
DoisDigitos(v) == IF v < 10 THEN "0" \o ToString(v) ELSE ToString(v)

\* the wind group of direction dir, sustained speed s and gust g
GrupoDeVento(dir, s, g) ==
    dir \o DoisDigitos(s) \o (IF g = 0 THEN "" ELSE "G" \o DoisDigitos(g)) \o "KT"

TiposObservacaoPrevisao == {"METAR", "SPECI", "TAF"}

\* a bulletin whose only wind group is in its base section
TextoVento(tipo, s, g) ==
    tipo \o " SBTA 281200Z " \o GrupoDeVento("210", s, g) \o " 9999 SCT030 25/20 Q1016="

\* a forecast with a calm base wind and a wind group inside a TEMPO block
TextoVentoTempo(s, g) ==
    "TAF SBTA 281600Z 2812/2912 36008KT 9999 SCT020 TEMPO 2812/2818 "
        \o GrupoDeVento("320", s, g) \o " 7000 SCT012 RMK PEL="

ChamadasVento ==
    { [ mensagem_texto |-> TextoVento(tipo, s, g), tipo_mensagem |-> tipo,
        caso |-> [familia |-> "vento", s |-> s, g |-> g] ] :
      tipo \in TiposObservacaoPrevisao, s \in Velocidades, g \in Rajadas }

ChamadasVentoTempo ==
    { [ mensagem_texto |-> TextoVentoTempo(s, g), tipo_mensagem |-> "TAF",
        caso |-> [familia |-> "vento_tempo", s |-> s, g |-> g] ] :
      s \in Velocidades, g \in Rajadas }

\* how a bulletin of each type begins
Cabecalho(tipo) ==
    CASE tipo = "AVISO" -> "SBGR SBTA AD WRNG 1 "
      [] tipo = "TAF"   -> "TAF SBTA 281600Z 2812/2912 33005KT 9999 SCT030 RMK "
      [] OTHER          -> tipo \o " SBTA 281200Z 21005KT 9999 SCT030 25/20 Q1016 RMK "

\* bodies with the ash code as a token of its own, inside the word VALID,
\* both or neither
CorposCinzas ==
    { a \o b : a \in {"", "VA ", "VALID 281134/281340 "},
               b \in {"OBS AT 1200Z", "FCST VA CLD"} }

ChamadasCinzas ==
    { [ mensagem_texto |-> Cabecalho(tipo) \o corpo \o "=", tipo_mensagem |-> tipo,
        caso |-> [familia |-> "cinzas"] ] :
      tipo \in {"AVISO", "METAR", "TAF"}, corpo \in CorposCinzas }

\* observations and forecasts of aerodromes whose identifiers hold a code,
\* with and without a phenomenon group and a TEMPO block
ChamadasCodigos ==
    { [ mensagem_texto |->
            tipo \o " " \o aerodromo \o " 281200Z 21005KT 9999 " \o fenomeno
                 \o "SCT030" \o tendencia \o "=",
        tipo_mensagem |-> tipo,
        caso |-> [familia |-> "codigos"] ] :
      tipo \in TiposObservacaoPrevisao,
      aerodromo \in {"SBTA", "SBGR", "SBSN"},
      fenomeno \in {"", "GR ", "PO ", "SN ", "RA "},
      tendencia \in {"", " TEMPO 2814/2816 4000 RA"} }

\* forecasts with or without a thunderstorm in the base section and with a
\* TEMPO block: as published (marker, validity period, weather groups), or
\* with the weather group right after the marker, or none
ChamadasTendencia ==
    { [ mensagem_texto |->
            "TAF SBTA 281600Z 2812/2912 33010KT 8000 " \o base \o "SCT030" \o bloco
                 \o " RMK PEL=",
        tipo_mensagem |-> "TAF",
        caso |-> [familia |-> "tendencia", base |-> base, bloco |-> bloco] ] :
      base \in {"", "TS ", "TSRA "},
      bloco \in {"", " TEMPO 2812/2815 TS", " TEMPO 2812/2815 TSRA",
                 " TEMPO 2812/2815 4000 TSRA BKN012", " TEMPO TS"} }

\* aerodrome warnings with and without a validity period, a hazard keyword
\* or a surface-wind clause
ChamadasAviso ==
    { [ mensagem_texto |->
            "SBGR SBGR/SBTA/SBSP AD WRNG 1 " \o validade \o perigo \o fim \o "=",
        tipo_mensagem |-> "AVISO",
        caso |-> [familia |-> "aviso"] ] :
      validade \in {"", "VALID 281210/281310 "},
      perigo \in {"", "TS ", "SFC WSPD 15KT MAX 25 ", "SFC WSPD 20KT ", "WS ", "GRANIZO "},
      fim \in {"FCST NC", "OBS AT 1200Z NC"} }

\* the height groups of the cloud layers tried run from 001 to MaxAltura
MaxAltura == 7

\* the heights tried, in hundreds of feet: the low ones and two of two digits
Alturas == (1..MaxAltura) \cup {10, 50}

\* a height as a cloud group holds it: three digits
TresDigitos(h) ==
    IF h < 10 THEN "00" \o ToString(h)
    ELSE IF h < 100 THEN "0" \o ToString(h) ELSE ToString(h)

OutraCobertura(cod) == IF cod = "BKN" THEN "OVC" ELSE "BKN"

\* observations and forecasts with one covering layer, or with two of
\* different coverage; h2 = 0 stands for no second layer
ChamadasTeto ==
    { [ mensagem_texto |->
            tipo \o " SBTA 281200Z 21005KT 9999 " \o cod \o TresDigitos(h1)
                 \o (IF h2 = 0 THEN "" ELSE " " \o OutraCobertura(cod) \o TresDigitos(h2))
                 \o " 25/20 Q1016=",
        tipo_mensagem |-> tipo,
        caso |-> [familia |-> "teto", cod |-> cod, h1 |-> h1, h2 |-> h2] ] :
      tipo \in TiposObservacaoPrevisao, cod \in {"BKN", "OVC"},
      h1 \in Alturas, h2 \in {0} \cup Alturas }

\* forecasts with a calm base wind and one or two trend blocks: the first
\* with no body at all, with weather only, or with a wind group of its own;
\* the second, a BECMG block, absent, with weather only, or with a wind group.
\* vento1 and vento2 are the speeds written in the blocks, "" when the block
\* has no wind group
ChamadasBlocos ==
    { [ mensagem_texto |->
            "TAF SBTA 281600Z 2812/2912 36008KT 9999 SCT030 " \o marcador1
                \o (IF corpo1.vazio THEN ""
                    ELSE IF corpo1.vento = "" THEN " 2812/2815 4000 RA"
                    ELSE " 2812/2815 270" \o corpo1.vento \o "KT")
                \o (IF ~ corpo2.presente THEN ""
                    ELSE IF corpo2.vento = "" THEN " BECMG 2818/2820 5000 BR"
                    ELSE " BECMG 2818/2820 270" \o corpo2.vento \o "KT")
                \o " RMK PEL=",
        tipo_mensagem |-> "TAF",
        caso |-> [familia |-> "blocos", marcador1 |-> marcador1,
                  vazio1 |-> corpo1.vazio, vento1 |-> corpo1.vento,
                  bloco2 |-> corpo2.presente, vento2 |-> corpo2.vento] ] :
      marcador1 \in {"TEMPO", "PROB30"},
      corpo1 \in {[vazio |-> TRUE, vento |-> ""], [vazio |-> FALSE, vento |-> ""],
                  [vazio |-> FALSE, vento |-> "25"], [vazio |-> FALSE, vento |-> "10"]},
      corpo2 \in {[presente |-> FALSE, vento |-> ""], [presente |-> TRUE, vento |-> ""],
                  [presente |-> TRUE, vento |-> "30"], [presente |-> TRUE, vento |-> "15"]} }

\* the validity period a trend block of a forecast carries after its marker
PeriodoDoBloco(tipo) == IF tipo = "TAF" THEN "2812/2815 " ELSE ""

\* observations and forecasts with fog: in the base section after a
\* visibility group or after none, and in a TEMPO trend with a visibility
\* group of its own or with none. vis1 and vis2 are the visibility groups as
\* written, "" when there is none
ChamadasNevoeiro ==
    { [ mensagem_texto |->
            tipo \o " SBTA 281200Z 21005KT "
                \o (IF vis1 = "" THEN "" ELSE vis1 \o " ")
                \o tempo_presente \o " SCT030"
                \o (IF ~ tendencia.presente THEN ""
                    ELSE " TEMPO " \o PeriodoDoBloco(tipo)
                           \o (IF tendencia.vis = "" THEN "" ELSE tendencia.vis \o " ")
                           \o "FG")
                \o " RMK PEL=",
        tipo_mensagem |-> tipo,
        caso |-> [familia |-> "nevoeiro", vis1 |-> vis1, fg1 |-> tempo_presente = "FG",
                  tendencia |-> tendencia.presente, vis2 |-> tendencia.vis] ] :
      tipo \in TiposObservacaoPrevisao,
      vis1 \in {"", "0800", "0999", "1000", "9999"},
      tempo_presente \in {"FG", "BR"},
      tendencia \in {[presente |-> FALSE, vis |-> ""], [presente |-> TRUE, vis |-> ""],
                     [presente |-> TRUE, vis |-> "0500"]} }

Chamadas ==
    ChamadasVento \cup ChamadasVentoTempo \cup ChamadasCinzas \cup ChamadasCodigos
        \cup ChamadasTendencia \cup ChamadasAviso
        \cup ChamadasTeto \cup ChamadasBlocos \cup ChamadasNevoeiro

InitClassificador ==
    /\ alertas_enviados_cache = CacheVazio
    /\ semente = 0
    /\ agora_utc = 0
    /\ pc = "chamada"
    /\ pendentes = << >>
    /\ redemet_ok = TRUE
    /\ telegram = << >>
    /\ execucoes = 0
    /\ reinicios = 0
    /\ falhas = 0
    /\ chamada \in Chamadas
    /\ retorno = {}

\* the call: the findings of the bulletin are returned, nothing else changes
Analisar ==
    /\ pc = "chamada"
    /\ retorno' = analisar_mensagem_meteorologica(chamada.mensagem_texto,
                                                  chamada.tipo_mensagem)
    /\ pc' = "retorno"
    /\ UNCHANGED << alertas_enviados_cache, semente, agora_utc, pendentes, redemet_ok,
                    telegram, execucoes, reinicios, falhas, chamada >>

NextClassificador == Analisar

SpecClassificador == InitClassificador /\ [][NextClassificador]_vars

(***************************************************************************)
(* Properties of the classification                                        *)
(***************************************************************************)

Letras == "ABCDEFGHIJKLMNOPQRSTUVWXYZ"

\* the character of s at position i, "" outside s
CharAt(s, i) == IF i < 1 \/ i > Len(s) THEN "" ELSE SubSeq(s, i, i)

EhLetra(c) == c # "" /\ Contains(Letras, c)

\* cod occurs in msg as a token of its own: somewhere with no letter right
\* before it and no letter right after it
TokenIsolado(msg, cod) ==
    \E i \in 1..Len(msg) :
        /\ LitAt(msg, i, cod)
        /\ ~ EhLetra(CharAt(msg, i - 1))
        /\ ~ EhLetra(CharAt(msg, i + Len(cod)))

Retornou(familia) == pc = "retorno" /\ chamada.caso.familia = familia

\* the findings returned that speak of volcanic ash
AchadosDeCinzas == { f \in retorno : Contains(f, "Cinzas Vulcânicas") }

\* C6: for a warning, an observation or a forecast, a volcanic-ash finding is
\* produced if and only if the code VA occurs as an isolated token, not
\* adjacent to letters; VALID without a standalone VA yields no ash finding.
C6_CinzasSoComoToken ==
    Retornou("cinzas") =>
        (AchadosDeCinzas # {} <=> TokenIsolado(Upper(chamada.mensagem_texto), "VA"))

\* C7: for observations and forecasts, the rule of a code contributes its
\* finding only when the code is present as a whole token; a code inside a
\* longer token (PO in TEMPO, GR in SBGR) yields no finding.
C7_CodigoSoComoToken ==
    Retornou("codigos") =>
        \A k \in DOMAIN CODIGOS_METAR_TAF_MAP :
            CODIGOS_METAR_TAF_MAP[k] \in retorno
                => TokenIsolado(Upper(chamada.mensagem_texto), CodigoTexto(k))

\* the findings returned that speak of the wind
AchadosDeVento ==
    { f \in retorno : Contains(f, "Vento Médio") \/ Contains(f, "Rajadas") }

RetornouVento == pc = "retorno" /\ chamada.caso.familia \in {"vento", "vento_tempo"}

\* C8 as amended: for a wind group with sustained speed s and optional gust
\* g, a wind finding is produced exactly when s > 20 or g > 20 knots; 20 kt
\* without a gust yields none and 21 kt yields one.
C8_LimiarEstrito ==
    RetornouVento =>
        (AchadosDeVento # {} <=> (chamada.caso.s > 20 \/ chamada.caso.g > 20))

\* 20 kt without a gust has been classified and no wind finding came back
C8_VinteNosSemAchado ==
    /\ Retornou("vento")
    /\ chamada.caso.s = 20
    /\ chamada.caso.g = 0
    /\ AchadosDeVento = {}

\* C8: a wind finding is produced exactly when s >= 20 or g >= 20 knots; 20 kt
\* without a gust yields a wind finding and 19 kt without a gust yields none.
C8_LimiarInclusivo ==
    RetornouVento =>
        (AchadosDeVento # {} <=> (chamada.caso.s >= 20 \/ chamada.caso.g >= 20))

\* the tag a wind finding of the tried family carries
PrefixoDoCaso ==
    IF chamada.caso.familia = "vento_tempo" THEN "PREVISÃO TEMPO: " ELSE ""

TextoMedio(s) == "Vento Médio de " \o ToString(s) \o "KT"

TextoRajadas(g) == "Rajadas de " \o ToString(g) \o "KT"

\* C9 as amended: a wind finding reports each of the two values that is above
\* 20 kt: the sustained speed alone, the gust alone, or both joined with
\* " e "; for 15 kt gusting 25 kt it reports the gust and not the sustained
\* speed.
C9_RelataValoresAcimaDoLimite ==
    RetornouVento =>
        \A f \in AchadosDeVento :
            LET s == chamada.caso.s
                g == chamada.caso.g
            IN  f = PrefixoDoCaso \o
                    (IF s > 20 /\ g > 20 THEN TextoMedio(s) \o " e " \o TextoRajadas(g)
                     ELSE IF s > 20 THEN TextoMedio(s)
                     ELSE TextoRajadas(g))

\* 15 kt gusting 25 kt has been classified and the finding is the gust alone
C9_QuinzeComRajadaVinteCinco ==
    /\ Retornou("vento")
    /\ chamada.caso.s = 15
    /\ chamada.caso.g = 25
    /\ AchadosDeVento = {"Rajadas de 25KT"}

\* C9: whenever a wind finding is produced, its text reports the sustained
\* speed, and the gust too when a gust is present and at or above the
\* threshold; 15 kt gusting 25 kt still reports the sustained speed.
C9_RelataSempreVentoMedio ==
    RetornouVento =>
        \A f \in AchadosDeVento :
            /\ Contains(f, TextoMedio(chamada.caso.s))
            /\ chamada.caso.g >= 20 => Contains(f, TextoRajadas(chamada.caso.g))

\* C10: a forecast with a thunderstorm code in the base section and one in a
\* TEMPO block written as published (marker, validity period, weather
\* groups) yields a thunderstorm finding with the TEMPO tag and a base-section
\* thunderstorm finding with a different prefix.
C10_TrovoadaEmTempoMarcada ==
    ( /\ Retornou("tendencia")
      /\ chamada.caso.base # ""
      /\ Contains(chamada.caso.bloco, "TEMPO 2812/2815") )
    => /\ "PREVISÃO TEMPO: Trovoada" \in retorno
       /\ \E f \in retorno :
            Contains(f, "Trovoada") /\ ~ Contains(f, "PREVISÃO TEMPO")

\* the hazard keywords of an aerodrome warning
PalavrasDeAviso ==
    { "TS", "GRANIZO", "NEVOEIRO", "FG", "CHUVA FORTE", "+RA", "VISIBILIDADE REDUZIDA",
      "WIND SHEAR", "WS", "CINZAS VULCÂNICAS", "VA", "FUMAÇA", "FU" }

\* the text holds a hazard keyword as a token of its own, or a surface-wind
\* clause
TemPerigoReconhecido(msg) ==
    \/ \E p \in PalavrasDeAviso : TokenIsolado(msg, p)
    \/ Contains(msg, "SFC WSPD ")

\* C11: a hazard warning is never dropped by the classification: the finding
\* set of a text of type AVISO is never empty, and when the text holds no
\* recognized hazard keyword and no surface-wind clause it is exactly the one
\* generic finding "Conteúdo não mapeado".
C11_AvisoNuncaDescartado ==
    Retornou("aviso") =>
        /\ retorno # {}
        /\ ~ TemPerigoReconhecido(Upper(chamada.mensagem_texto))
              => retorno = {"Conteúdo não mapeado"}

\* the low-ceiling findings returned for the coverage code cod
AchadosDeTeto(cod) ==
    { f \in retorno :
        Contains(f, CODIGOS_METAR_TAF_MAP[cod]) /\ Contains(f, "(TETO BAIXO < 600FT)") }

\* C12: a BKN or OVC layer with height group 001..005 yields the low-ceiling
\* finding of its code, and a code whose layers all have height group 006 or
\* higher yields none.
C12_TetoBaixoAteQuinhentosPes ==
    Retornou("teto") =>
        LET cod == chamada.caso.cod
            h1 == chamada.caso.h1
            h2 == chamada.caso.h2
        IN  /\ AchadosDeTeto(cod) # {} <=> h1 <= 5
            /\ AchadosDeTeto(OutraCobertura(cod)) # {} <=> (h2 # 0 /\ h2 <= 5)

\* a layer at 500 ft and a layer of the other coverage at 600 ft have been
\* classified: the first has its low-ceiling finding, the second has none
C12_QuinhentosSimSeiscentosNao ==
    /\ Retornou("teto")
    /\ chamada.caso.h1 = 5
    /\ chamada.caso.h2 = 6
    /\ AchadosDeTeto(chamada.caso.cod) # {}
    /\ AchadosDeTeto(OutraCobertura(chamada.caso.cod)) = {}

\* the alerts sent so far about aerodrome warnings, by position in telegram
AlertasDeAviso ==
    { n \in 1..Len(telegram) : telegram[n].original \in Publicados("avisos") }

\* the start/end day-time pair that follows VALID in a warning
JanelaDeValidade(msg) ==
    LET at == { i \in 1..Len(msg) : LitAt(msg, i, "VALID ") }
    IN  IF at = {} THEN "" ELSE Sub(msg, Min(at) + 6, Min(at) + 18)

\* C14: every alert sent for an aerodrome warning carries the validity window
\* of the warning as a field of its own, apart from the findings, beside the
\* aerodrome, the findings, the original text and the time of the agent.
C14_AlertaDeAvisoTemValidade ==
    \A n \in AlertasDeAviso :
        /\ {"titulo", "condicoes", "original", "hora", "validade"} \subseteq DOMAIN telegram[n]
        /\ telegram[n].validade = JanelaDeValidade(telegram[n].original)

\* C15: when a run completes, the cache keeps exactly its entries aged 24
\* hours or less at the time of the run (an entry aged exactly 24 hours
\* stays, an older one goes), with their timestamps; this happens in the one
\* step that ends the run, after the last bulletin, and no other step of a
\* run removes or changes an entry.
C15_EviccaoUmaVezNoFim ==
    [][ pc # "dormindo" =>
          IF pc' = "dormindo"
          THEN /\ pc = "metar" /\ pendentes = << >>
               /\ DOMAIN alertas_enviados_cache' =
                     { h \in DOMAIN alertas_enviados_cache :
                         agora_utc - alertas_enviados_cache[h] <= Janela }
               /\ \A h \in DOMAIN alertas_enviados_cache' :
                     alertas_enviados_cache'[h] = alertas_enviados_cache[h]
          ELSE /\ DOMAIN alertas_enviados_cache \subseteq DOMAIN alertas_enviados_cache'
               /\ \A h \in DOMAIN alertas_enviados_cache :
                     alertas_enviados_cache'[h] = alertas_enviados_cache[h] ]_vars

\* a run has completed in a process that ran from the start: an entry aged
\* exactly 24 hours is in the cache and the entry of an alert older than 24
\* hours is gone
C15_RetidoNoLimiteEvictoDepois ==
    /\ pc = "dormindo"
    /\ reinicios = 0
    /\ \E h \in DOMAIN alertas_enviados_cache :
          agora_utc - alertas_enviados_cache[h] = Janela
    /\ \E n \in 1..Len(telegram) :
          /\ agora_utc - telegram[n].hora > Janela
          /\ calcular_hash_mensagem(telegram[n].original)
                 \notin DOMAIN alertas_enviados_cache

(***************************************************************************)
(* What the cache holds                                                    *)
(***************************************************************************)

\* every key of the cache is the hash of a bulletin that has findings and was
\* handed to the sender in the run whose agora_utc is the value of the key
CacheVemDeEnvios ==
    \A h \in DOMAIN alertas_enviados_cache :
        \E n \in 1..Len(telegram) :
            /\ calcular_hash_mensagem(telegram[n].original) = h
            /\ telegram[n].hora = alertas_enviados_cache[h]
            /\ telegram[n].condicoes # {}
            /\ \E e \in Endpoints :
                  /\ telegram[n].original \in Publicados(e)
                  /\ telegram[n].condicoes = Analise[e][telegram[n].original]

\* the pass of the loop over a bulletin the classifier has no finding for
\* leaves the cache and the log of sends as they were
SemAchadoSemEfeito ==
    (/\ pc \in Endpoints
     /\ pendentes # << >>
     /\ pendentes' = Tail(pendentes)
     /\ Analise[pc][Head(pendentes)] = {})
        => /\ alertas_enviados_cache' = alertas_enviados_cache
           /\ telegram' = telegram

\* C16: in every reachable state each key of alertas_enviados_cache is the
\* hash of a bulletin that was presented, classified with at least one
\* finding and handed to the notification sender in the run whose timestamp
\* is the value stored; a bulletin whose classification yields no finding
\* never creates a cache entry and never causes a send.
C16_CacheSoDeAlertas ==
    /\ [](CacheVemDeEnvios /\ \A n \in 1..Len(telegram) : telegram[n].condicoes # {})
    /\ [][SemAchadoSemEfeito]_vars

\* two bulletins with findings are in the cache, each with the send that put
\* it there, and the loop of the observations is at a bulletin without any
C16_DoisNoCacheEMetarCalmo ==
    /\ pc = "metar"
    /\ pendentes = << MetarCalmo >>
    /\ Analise["metar"][MetarCalmo] = {}
    /\ Cardinality(DOMAIN alertas_enviados_cache) = 2
    /\ Len(telegram) = 2
    /\ CacheVemDeEnvios

(***************************************************************************)
(* A send that fails                                                       *)
(***************************************************************************)

\* the last attempt in the log of sends after a step
UltimoEnvio == telegram'[Len(telegram')]

\* a step that attempts a send, delivered or not, is taken for a bulletin
\* whose hash is not in the cache and leaves it there with agora_utc
EnvioRegistraSempre ==
    telegram' # telegram =>
        LET msg_hash == calcular_hash_mensagem(UltimoEnvio.original)
        IN  /\ Len(telegram') = Len(telegram) + 1
            /\ msg_hash \notin DOMAIN alertas_enviados_cache
            /\ msg_hash \in DOMAIN alertas_enviados_cache'
            /\ alertas_enviados_cache'[msg_hash] = agora_utc
            /\ UltimoEnvio.hora = agora_utc

\* the pass of the loop over a bulletin whose hash is in the cache attempts
\* no send and leaves the cache as it was
EmCacheSemEnvio ==
    (/\ pc \in Endpoints
     /\ pendentes # << >>
     /\ pendentes' = Tail(pendentes)
     /\ calcular_hash_mensagem(Head(pendentes)) \in DOMAIN alertas_enviados_cache)
        => /\ telegram' = telegram
           /\ alertas_enviados_cache' = alertas_enviados_cache

\* C20: the cache entry of a bulletin is written right after the attempt to
\* send, whether or not the delivery succeeded, so a bulletin whose delivery
\* failed counts as alerted: no further attempt is made for it until its
\* entry is evicted.
C20_FalhaDeEnvioNaoRepetida ==
    [][EnvioRegistraSempre /\ EmCacheSemEnvio]_vars

\* a later run is about to handle a bulletin whose only send failed, and the
\* entry of that failed send is still in the cache
C20_FalhouEContinuaNoCache ==
    /\ pc = "avisos"
    /\ pendentes = << AvisoSuperficie >>
    /\ reinicios = 0
    /\ AlertasDe(AvisoSuperficie) # {}
    /\ \A n \in AlertasDe(AvisoSuperficie) :
          /\ ~ telegram[n].entregue
          /\ telegram[n].hora < agora_utc
    /\ calcular_hash_mensagem(AvisoSuperficie) \in DOMAIN alertas_enviados_cache
    /\ alertas_enviados_cache[calcular_hash_mensagem(AvisoSuperficie)]
           = telegram[UltimoAlerta(AvisoSuperficie)].hora

(***************************************************************************)
(* The wind of the trend blocks of a forecast                              *)
(***************************************************************************)

\* the findings returned that carry the tag of the trend marker
AchadosComTag(marcador) ==
    { f \in retorno : StartsWith(f, "PREVISÃO " \o marcador \o ":") }

\* the wind finding a block owes to its own wind group: one when the speed
\* written in the block is above 20 kt, none otherwise
VentoDoBloco(marcador, vento) ==
    IF vento # "" /\ ToInt(vento) > 20
    THEN { "PREVISÃO " \o marcador \o ": Vento Médio de " \o vento \o "KT" }
    ELSE {}

\* C17: every forecast wind finding prefixed with a trend tag comes from a
\* wind group inside that same trend block, between its marker and the next
\* marker or the end of the text; a wind group of a later block is never
\* reported under the tag of an earlier block, and each block whose own wind
\* group is above the threshold gets its own tagged finding.
C17_VentoDoProprioBloco ==
    Retornou("blocos") =>
        /\ { f \in AchadosComTag(chamada.caso.marcador1) : Contains(f, "Vento Médio") }
               = VentoDoBloco(chamada.caso.marcador1, chamada.caso.vento1)
        /\ chamada.caso.bloco2 =>
               { f \in AchadosComTag("BECMG") : Contains(f, "Vento Médio") }
                  = VentoDoBloco("BECMG", chamada.caso.vento2)

\* C18: in a forecast, a trend marker with no body before the next trend
\* marker contributes no finding carrying its tag, whatever the blocks after
\* it hold, a wind group above the threshold included.
C18_BlocoVazioSemAchado ==
    (Retornou("blocos") /\ chamada.caso.vazio1 /\ chamada.caso.bloco2)
        => AchadosComTag(chamada.caso.marcador1) = {}

(***************************************************************************)
(* Fog and the visibility group                                            *)
(***************************************************************************)

\* the standalone visibility groups written in the bulletin
GruposDeVisibilidade == { chamada.caso.vis1, chamada.caso.vis2 } \ {""}

\* the fog code is in the bulletin
TemNevoeiro == chamada.caso.fg1 \/ chamada.caso.tendencia

\* the fog findings returned, with and without the distance
NevoeiroQualificado ==
    { f \in retorno : Contains(f, "Nevoeiro (VISIBILIDADE < 1000M)") }

NevoeiroSimples ==
    { f \in retorno : Contains(f, "Nevoeiro") /\ ~ Contains(f, "VISIBILIDADE") }

\* C19: for an observation or a forecast that holds the fog code FG, a
\* standalone 4-digit visibility group below 1000 yields the fog finding
\* qualified with the distance, and when there is no standalone 4-digit
\* group at all the bare fog description is still produced.
C19_NevoeiroComOuSemVisibilidade ==
    (Retornou("nevoeiro") /\ TemNevoeiro) =>
        /\ (\E g \in GruposDeVisibilidade : ToInt(g) < 1000) => NevoeiroQualificado # {}
        /\ GruposDeVisibilidade = {} => NevoeiroSimples # {}

(***************************************************************************)
(* A bulletin found in the cache                                           *)
(***************************************************************************)

\* the step is the pass of a loop over the bulletin at the head of pendentes
PassoSobre(mensagem) ==
    /\ pc \in Endpoints
    /\ pendentes # << >>
    /\ Head(pendentes) = mensagem
    /\ pendentes' = Tail(pendentes)

\* C21: when the hash of a presented bulletin is already in the cache, the
\* run sends nothing for it, does not classify it and leaves the cache as it
\* is; the timestamp stored is not renewed, so the retention window runs
\* from the alert and not from the latest time the bulletin was seen.
C21_NoCacheNadaMuda ==
    [][ \A m \in Textos :
          (PassoSobre(m) /\ calcular_hash_mensagem(m) \in DOMAIN alertas_enviados_cache)
             => /\ telegram' = telegram
                /\ chamada' = SemChamada /\ retorno' = {}
                /\ alertas_enviados_cache' = alertas_enviados_cache ]_vars

\* a forecast alerted and delivered exactly 24 hours ago is presented again,
\* and its entry still holds the time of that alert
C21_ReapresentadoComCarimboOriginal ==
    /\ pc = "taf"
    /\ pendentes = << TafTempo >>
    /\ reinicios = 0
    /\ AlertasDe(TafTempo) # {}
    /\ telegram[UltimoAlerta(TafTempo)].entregue
    /\ calcular_hash_mensagem(TafTempo) \in DOMAIN alertas_enviados_cache
    /\ alertas_enviados_cache[calcular_hash_mensagem(TafTempo)]
           = telegram[UltimoAlerta(TafTempo)].hora
    /\ agora_utc - telegram[UltimoAlerta(TafTempo)].hora = Janela

(***************************************************************************)
(* Warnings without a mapped phenomenon                                    *)
(***************************************************************************)

\* the warnings published whose findings hold the generic marker
AvisosNaoMapeados ==
    { m \in Publicados("avisos") : "Conteúdo não mapeado" \in Analise["avisos"][m] }

\* a pass over a warning with the generic marker sends nothing and writes
\* nothing to the cache
NaoMapeadoSemEfeito ==
    \A m \in AvisosNaoMapeados :
        PassoSobre(m) => /\ telegram' = telegram
                         /\ alertas_enviados_cache' = alertas_enviados_cache

\* a pass over a warning with the generic marker classifies it
NaoMapeadoClassificado ==
    \A m \in AvisosNaoMapeados :
        PassoSobre(m) => /\ chamada' = [mensagem_texto |-> m, tipo_mensagem |-> "AVISO"]
                         /\ "Conteúdo não mapeado" \in retorno'

AlertadoNaJanela(m) ==
    \E n \in AlertasDe(m) : agora_utc - telegram[n].hora <= Janela

\* the step attempts exactly one send, about the bulletin text m
UmEnvioSobre(m) ==
    /\ Len(telegram') = Len(telegram) + 1
    /\ SubSeq(telegram', 1, Len(telegram)) = telegram
    /\ telegram'[Len(telegram')].original = m

\* C23: in every run, a presented bulletin whose text was not alerted within
\* the current retention window and whose classification has at least one
\* mapped finding causes exactly one send attempt in that run; a cache entry
\* made for another bulletin text never suppresses it.
C23_NenhumAlertaPerdido ==
    [][ \A m \in Textos :
          (/\ PassoSobre(m)
           /\ DeveAlertar(Analise[pc][m])
           /\ ~ AlertadoNaJanela(m))
             => UmEnvioSobre(m) ]_vars

====
